---- MODULE Spec2Model ----
(***************************************************************************)
(* Model of generateMemoryVideo (src/src/hooks/useApiKeys.ts): one call    *)
(* that submits a job with a POST, decides whether the answer is already   *)
(* a video, and otherwise polls a status URL every POLLING_INTERVAL ms     *)
(* until the job resolves, fails, or TIMEOUT_MS of wall-clock time have    *)
(* passed.  The host is single-threaded: the code between two awaits runs  *)
(* atomically, so there is one action per resumption of the async          *)
(* function (call, POST settled, timer fired, GET settled).                *)
(* AppSpec puts the call inside the App component (src/unnamed/part_000):  *)
(* its React state, its event handlers, and handleGenerate, which awaits   *)
(* the call and reacts to its progress, its result and its error.          *)
(***************************************************************************)
EXTENDS Integers, Sequences, FiniteSets, TLC

\* ---------------------------------------------------------------- bounds
\* Time the initial POST takes (ms); the handshake timeout is 30000.
PostLatency == 1000
\* Time a quickly answered status GET takes (ms).
GetLatency == 200
\* Time a slowly answered status GET takes (ms): axios.get has no timeout.
SlowGet == 2000000
\* Number of quickly answered GETs the environment produces in one call.
MaxFastPolls == 2
\* Number of generations the user starts in one session of the App.
MaxCalls == 2

\* Mutant: the interval is given in seconds where setTimeout takes milliseconds.
PollingIntervalInSeconds == 5000 \div 1000

\* ---------------------------------------------------------------- program constants
TIMEOUT_MS == 2000000
POLLING_INTERVAL == 5000

\* ---------------------------------------------------------------- JavaScript values
\* A missing property of a JSON body.
undefined == "undefined"

\* Truthiness of a string-or-undefined value: undefined and "" are falsy.
Truthy(v) == v # undefined /\ v # ""

\* a || b on string-or-undefined values.
Or(a, b) == IF Truthy(a) THEN a ELSE b

\* The `output` property: missing, a string, or an array of strings.
NoOutput == [t |-> "none", s |-> "", l |-> <<>>]
StrOutput(s) == [t |-> "str", s |-> s, l |-> <<>>]
ListOutput(l) == [t |-> "list", s |-> "", l |-> l]

\* Truthiness of `output`: every array (also the empty one) is truthy.
OutputTruthy(o) == (o.t = "str" /\ o.s # "") \/ o.t = "list"

\* Array.isArray(output)
IsArray(o) == o.t = "list"

\* A response body: the properties the client reads; video_url is video?.url.
Blank ==
  [status |-> undefined, video_url |-> undefined, output |-> NoOutput,
   url |-> undefined, error |-> undefined, status_url |-> undefined,
   request_id |-> undefined, id |-> undefined]

\* ---------------------------------------------------------------- errors
\* An axios error that carries an HTTP response.
HttpError(code) == [response |-> TRUE, status |-> code, message |-> "Request failed"]
\* An axios error without a response (network failure, timeout).
NetworkError == [response |-> FALSE, status |-> 0, message |-> "Network Error"]
\* new Error(message)
JsError(msg) == [response |-> FALSE, status |-> 0, message |-> msg]
NoError == [response |-> FALSE, status |-> 0, message |-> ""]

JobFailedError(data, currentStatus) ==
  JsError("Video generation failed: " \o Or(data.error, currentStatus))

TimeoutError == JsError("Timed out waiting for video generation (2000s limit reached).")

\* ---------------------------------------------------------------- inputs
VideoShapes ==
  { [Blank EXCEPT !.video_url = "https://cdn/v.mp4"],
    [Blank EXCEPT !.output = StrOutput("https://cdn/o.mp4")],
    [Blank EXCEPT !.output = ListOutput(<<"https://cdn/a.mp4", "https://cdn/b.mp4">>)],
    [Blank EXCEPT !.url = "https://cdn/u.mp4"] }

OddShapes ==
  { [Blank EXCEPT !.output = ListOutput(<<>>)],
    [Blank EXCEPT !.output = StrOutput("")] }

\* Bodies the POST may answer with.
InitialResponses ==
  { [s EXCEPT !.request_id = "r-1"] : s \in VideoShapes \cup OddShapes }
  \cup
  { [Blank EXCEPT !.status_url = su, !.request_id = r, !.id = i] :
      su \in {undefined, "https://platform.higgsfield.ai/requests/r-1/poll"},
      r \in {undefined, "r-1"},
      i \in {undefined, "i-2"} }
  \cup { [Blank EXCEPT !.status = "queued", !.request_id = "r-1"],
         [Blank EXCEPT !.status_url = "", !.id = "i-2"],
         [Blank EXCEPT !.status_url = ""] }

\* Bodies a status GET may answer with.  Each names another status_url, which
\* the client is expected to ignore.
PollResponses ==
  { [s EXCEPT !.status_url = "https://elsewhere/status"] :
      s \in VideoShapes \cup OddShapes \cup {Blank} }
  \cup
  { [Blank EXCEPT !.status = st, !.status_url = "https://elsewhere/status"] :
      st \in {"queued", "completed", "success", "failed", "nsfw"} }
  \cup
  { [Blank EXCEPT !.status = "failed", !.error = "content rejected"],
    [Blank EXCEPT !.status = "failed", !.url = "https://cdn/u.mp4"],
    [Blank EXCEPT !.status = "completed", !.video_url = "https://cdn/v.mp4"] }

PostErrors == {NetworkError, HttpError(401), HttpError(422), HttpError(500)}
PollErrors == {NetworkError, HttpError(401), HttpError(404), HttpError(429), HttpError(500)}

\* ---------------------------------------------------------------- state
VARIABLES
  pc,               \* where the async function is suspended
  hasCallback,      \* whether onStatusUpdate was supplied
  data,             \* `data`: the last response body
  requestId,        \* `requestId`
  statusUrl,        \* `statusUrl`
  now,              \* Date.now()
  startTime,        \* `startTime`
  outcome,          \* "none", "returned" or "threw"
  result,           \* the value returned to the caller
  thrown,           \* the error raised to the caller
  progress,         \* the values onStatusUpdate has received, in order
  lastPost,         \* how the POST settled
  lastPoll,         \* how the last status GET settled
  polled,           \* the `status` of every answered status GET, in order
  transient,        \* number of status GETs that failed with 429, 5xx or no response
  posts,            \* number of POSTs issued
  gets,             \* number of status GETs issued
  fastGets,         \* number of quickly answered status GETs
  waits,            \* number of wait intervals started
  getTargets,       \* the URLs the status GETs were sent to
  callbackThrew,    \* what onStatusUpdate threw in the current step of the call, if anything
  \* the App component
  preview,          \* `preview`: the loaded image URL, or null
  isGenerating,     \* `isGenerating`
  generationStatus, \* `generationStatus`
  generatedVideo,   \* `generatedVideo`: what the video player is given, or null
  error,            \* `error`: the message shown, or null
  isSettingsOpen,   \* `isSettingsOpen`
  keys,             \* useApiKeys: [apiKey, apiSecret]
  requests,         \* the arguments of every generateMemoryVideo call, in order
  inFlight          \* number of generateMemoryVideo calls started and not yet ended

appVars ==
  <<preview, isGenerating, generationStatus, generatedVideo, error, isSettingsOpen,
    keys, requests, inFlight>>

callVars ==
  <<pc, hasCallback, data, requestId, statusUrl, now, startTime, outcome, result,
    thrown, progress, lastPost, lastPoll, polled, transient, posts, gets,
    fastGets, waits, getTargets, callbackThrew>>

vars == <<callVars, appVars>>

\* How a request settled: not yet, with a 2xx body, or with an error.
NotSettled == [kind |-> "none", resp |-> Blank, err |-> NoError]
Answered(resp) == [kind |-> "ok", resp |-> resp, err |-> NoError]
Failed(err) == [kind |-> "err", resp |-> Blank, err |-> err]

\* ---------------------------------------------------------------- the code's pure parts
\* Mutant: the readiness check forgets the top-level url property.
isVideoReadyNoUrl(response) ==
  \/ Truthy(response.video_url)
  \/ OutputTruthy(response.output)
  \/ (IsArray(response.output) /\ Len(response.output.l) > 0)

\* isVideoReady(response)
isVideoReady(response) ==
  \/ Truthy(response.video_url)
  \/ OutputTruthy(response.output)
  \/ Truthy(response.url)
  \/ (IsArray(response.output) /\ Len(response.output.l) > 0)

\* Mutant: the two id properties are read in the other order.
RequestIdOfIdFirst(d) == Or(d.id, d.request_id)

\* const requestId = data.request_id || data.id
RequestIdOf(d) == Or(d.request_id, d.id)

StatusTemplate(id) == "https://platform.higgsfield.ai/requests/" \o id \o "/status"

\* let statusUrl = data.status_url; if (!statusUrl && requestId) statusUrl = template
StatusUrlOf(d) ==
  IF ~Truthy(d.status_url) /\ Truthy(RequestIdOf(d))
  THEN StatusTemplate(RequestIdOf(d))
  ELSE d.status_url

\* Mutant: the status URL is compared with undefined instead of tested for truth.
UntrackableStrict(d) == d.status_url = undefined /\ ~Truthy(Or(d.request_id, d.id))

\* else if (!statusUrl && !requestId): the job cannot be tracked
Untrackable(d) == ~Truthy(d.status_url) /\ ~Truthy(RequestIdOf(d))

\* onStatusUpdate(data.status || "Queued")
QueuedStatus(d) == Or(d.status, "Queued")

\* Mutant: the poll cycle reuses the default of the job-started notification.
currentStatusQueued(d) == Or(d.status, "Queued")

\* const currentStatus = data.status || "in_progress"
currentStatus(d) == Or(d.status, "in_progress")

\* Mutant: currentStatus === 'completed' || 'success' || ..., which is always truthy.
IsResolvedAlways(d) == TRUE

\* currentStatus === 'completed' || currentStatus === 'success' || isVideoReady(data)
IsResolved(d) ==
  currentStatus(d) = "completed" \/ currentStatus(d) = "success" \/ isVideoReady(d)

\* currentStatus === 'failed' || currentStatus === 'nsfw'
IsFailed(d) == currentStatus(d) = "failed" \/ currentStatus(d) = "nsfw"

\* Mutant: the upper end of the 4xx range is not tested.
RethrownFrom400(pollError) ==
  pollError.response /\ pollError.status >= 400 /\ pollError.status # 429

\* Mutant: only authorization failures stop the polling.
RethrownAuthOnly(pollError) ==
  pollError.response /\ (pollError.status = 401 \/ pollError.status = 403)

\* Mutant: every 4xx response stops the polling, 429 included.
RethrownWith429(pollError) ==
  pollError.response /\ pollError.status >= 400 /\ pollError.status < 500

\* The catch clause of the poll cycle rethrows only 4xx responses other than 429.
Rethrown(pollError) ==
  pollError.response /\ pollError.status >= 400 /\ pollError.status < 500
    /\ pollError.status # 429

\* while (Date.now() - startTime < TIMEOUT_MS)
LoopContinues(t, start) == t - start < TIMEOUT_MS

\* if (onStatusUpdate) onStatusUpdate(v)
Notify(onStatusUpdate, v) ==
  progress' = IF onStatusUpdate THEN Append(progress, v) ELSE progress

\* ---------------------------------------------------------------- leaving the call
\* Mutant: the result is handed over but the loop is not left.
ReturnKeepsPolling(d) ==
  /\ pc' = "waiting"
  /\ outcome' = "returned"
  /\ result' = d
  /\ waits' = waits + 1
  /\ UNCHANGED thrown

\* return d
Return(d) ==
  /\ pc' = "done"
  /\ outcome' = "returned"
  /\ result' = d
  /\ UNCHANGED <<thrown, waits>>

\* Mutant: the outer catch throws a new Error made from the message.
ThrowWrapped(e) ==
  /\ pc' = "done"
  /\ outcome' = "threw"
  /\ thrown' = JsError(e.message)
  /\ UNCHANGED <<result, waits>>

\* Mutant: the outer catch logs the error and does not rethrow it.
ThrowSwallowed(e) ==
  /\ pc' = "done"
  /\ outcome' = "returned"
  /\ UNCHANGED <<result, thrown, waits>>

\* throw e, through the outer catch, which logs and rethrows
Throw(e) ==
  /\ pc' = "done"
  /\ outcome' = "threw"
  /\ thrown' = e
  /\ UNCHANGED <<result, waits>>

\* await new Promise(resolve => setTimeout(resolve, POLLING_INTERVAL))
StartWait ==
  /\ pc' = "waiting"
  /\ waits' = waits + 1
  /\ UNCHANGED <<outcome, result, thrown>>

\* Mutant: when the ceiling is reached the last body is returned instead.
LoopHeadReturns(t) ==
  IF t - startTime' < TIMEOUT_MS THEN StartWait ELSE Return(data')

\* The loop condition, evaluated at time t: another cycle, or the timeout error.
LoopHead(t) ==
  IF LoopContinues(t, startTime') THEN StartWait ELSE Throw(TimeoutError)

\* ---------------------------------------------------------------- actions
\* No call has been made.
InitCall ==
  /\ pc = "idle"
  /\ hasCallback = FALSE
  /\ data = Blank
  /\ requestId = undefined
  /\ statusUrl = undefined
  /\ now = 0
  /\ startTime = 0
  /\ outcome = "none"
  /\ result = Blank
  /\ thrown = NoError
  /\ progress = <<>>
  /\ lastPost = NotSettled
  /\ lastPoll = NotSettled
  /\ polled = <<>>
  /\ transient = 0
  /\ posts = 0
  /\ gets = 0
  /\ fastGets = 0
  /\ waits = 0
  /\ getTargets = {}
  /\ callbackThrew = NoError

\* JavaScript null, for the string-or-null state of the App.
null == "null"

\* The App after mounting: useApiKeys holds the keys of the environment, if any.
InitApp(apiKey, apiSecret) ==
  /\ preview = null
  /\ isGenerating = FALSE
  /\ generationStatus = ""
  /\ generatedVideo = NoOutput
  /\ error = null
  /\ isSettingsOpen = FALSE
  /\ keys = [apiKey |-> apiKey, apiSecret |-> apiSecret]
  /\ requests = <<>>
  /\ inFlight = 0

Init == InitCall /\ InitApp("", "")

\* generateMemoryVideo is called: the first notification, then the POST is issued.
Call(cb) ==
  /\ pc = "idle"
  /\ hasCallback' = cb
  /\ Notify(cb, "Initializing...")
  /\ posts' = posts + 1
  /\ pc' = "posting"
  /\ UNCHANGED <<data, requestId, statusUrl, now, startTime, outcome, result, thrown,
                 lastPost, lastPoll, polled, transient, gets, fastGets, waits,
                 getTargets>>

\* The POST is answered with a 2xx body.
PostOk(resp) ==
  /\ pc = "posting"
  /\ now' = now + PostLatency
  /\ data' = resp
  /\ lastPost' = Answered(resp)
  /\ UNCHANGED <<hasCallback, lastPoll, polled, transient, posts, gets, fastGets,
                 getTargets>>
  /\ IF isVideoReady(resp)
     THEN /\ Return(resp)
          /\ UNCHANGED <<requestId, statusUrl, startTime, progress>>
     ELSE /\ requestId' = RequestIdOf(resp)
          /\ IF Untrackable(resp)
             THEN /\ Return(resp)
                  /\ statusUrl' = resp.status_url
                  /\ UNCHANGED <<startTime, progress>>
             ELSE /\ statusUrl' = StatusUrlOf(resp)
                  /\ Notify(hasCallback, QueuedStatus(resp))
                  /\ startTime' = now'
                  /\ LoopHead(now')

\* The POST fails: no response, a timeout, or a non-2xx response.
PostFail(err) ==
  /\ pc = "posting"
  /\ now' = now + PostLatency
  /\ lastPost' = Failed(err)
  /\ Throw(err)
  /\ UNCHANGED <<hasCallback, data, requestId, statusUrl, startTime, progress,
                 lastPoll, polled, transient, posts, gets, fastGets,
                 getTargets>>

\* The wait interval is over: the status GET is issued.
TimerFires ==
  /\ pc = "waiting"
  /\ now' = now + POLLING_INTERVAL
  /\ pc' = "getting"
  /\ gets' = gets + 1
  /\ getTargets' = getTargets \cup {statusUrl}
  /\ UNCHANGED <<hasCallback, data, requestId, statusUrl, startTime, outcome, result,
                 thrown, progress, lastPost, lastPoll, polled, transient, posts,
                 fastGets, waits>>

\* How long a status GET takes: quickly answered ones are bounded in number.
Settles(d) ==
  /\ now' = now + d
  /\ \/ d = GetLatency /\ fastGets < MaxFastPolls /\ fastGets' = fastGets + 1
     \/ d = SlowGet /\ fastGets' = fastGets

\* What the catch clause of the poll cycle does with pollError.
Catch(pollError) ==
  IF Rethrown(pollError) THEN Throw(pollError) ELSE LoopHead(now')

\* The status GET is answered with a 2xx body.
GetOk(resp, d) ==
  /\ pc = "getting"
  /\ Settles(d)
  /\ data' = resp
  /\ lastPoll' = Answered(resp)
  /\ polled' = Append(polled, resp.status)
  /\ Notify(hasCallback, currentStatus(resp))
  /\ UNCHANGED <<hasCallback, requestId, statusUrl, startTime, lastPost,
                 transient, posts, gets, getTargets>>
  /\ IF IsResolved(resp) THEN Return(resp)
     ELSE IF IsFailed(resp) THEN Catch(JobFailedError(resp, currentStatus(resp)))
     ELSE LoopHead(now')

\* The status GET fails.
GetFail(err, d) ==
  /\ pc = "getting"
  /\ Settles(d)
  /\ lastPoll' = Failed(err)
  /\ transient' = IF Rethrown(err) THEN transient ELSE transient + 1
  /\ UNCHANGED <<hasCallback, data, requestId, statusUrl, startTime, progress,
                 lastPost, polled, posts, gets, getTargets>>
  /\ Catch(err)

\* generateMemoryVideo called on its own, outside the App.
Next ==
  \/ \E cb \in BOOLEAN : Call(cb) /\ UNCHANGED <<appVars, callbackThrew>>
  \/ \E resp \in InitialResponses : PostOk(resp) /\ UNCHANGED <<appVars, callbackThrew>>
  \/ \E err \in PostErrors : PostFail(err) /\ UNCHANGED <<appVars, callbackThrew>>
  \/ TimerFires /\ UNCHANGED <<appVars, callbackThrew>>
  \/ \E resp \in PollResponses, d \in {GetLatency, SlowGet} :
        GetOk(resp, d) /\ UNCHANGED <<appVars, callbackThrew>>
  \/ \E err \in PollErrors, d \in {GetLatency, SlowGet} :
        GetFail(err, d) /\ UNCHANGED <<appVars, callbackThrew>>

Spec == Init /\ [][Next]_vars

\* The timer fires and every request settles (the premise of the liveness claims).
FairSpec == Spec /\ WF_vars(Next)

\* ---------------------------------------------------------------- a callback that throws
\* `throw null`: a thrown value that is no object (told apart by its status).
ThrownNull == [response |-> FALSE, status |-> -1, message |-> "null"]

\* What pollError.message raises when pollError is null.
TypeError == JsError("Cannot read properties of null (reading 'message')")

\* What onStatusUpdate may throw: an Error, an axios error it let through, null.
CallbackThrows ==
  {JsError("callback failed"), HttpError(404), HttpError(429), ThrownNull}

\* Mutant: the callback is invoked outside the try block of the poll cycle.
CatchThrownOutsideTry(e) == Throw(e)

\* The catch clause of the poll cycle, given what the callback threw: it reads
\* pollError.message and pollError.response before anything else.
CatchThrown(e) ==
  IF e = ThrownNull THEN Throw(TypeError) ELSE Catch(e)

\* onStatusUpdate("Initializing...") throws: the POST is never issued.
CallThrows(e) ==
  /\ pc = "idle"
  /\ hasCallback' = TRUE
  /\ progress' = Append(progress, "Initializing...")
  /\ callbackThrew' = e
  /\ Throw(e)
  /\ UNCHANGED <<data, requestId, statusUrl, now, startTime, lastPost, lastPoll, polled,
                 transient, posts, gets, fastGets, getTargets>>

\* onStatusUpdate(data.status || "Queued") throws, before the loop is entered.
PostOkThrows(resp, e) ==
  /\ pc = "posting"
  /\ hasCallback
  /\ ~isVideoReady(resp)
  /\ ~Untrackable(resp)
  /\ now' = now + PostLatency
  /\ data' = resp
  /\ lastPost' = Answered(resp)
  /\ requestId' = RequestIdOf(resp)
  /\ statusUrl' = StatusUrlOf(resp)
  /\ progress' = Append(progress, QueuedStatus(resp))
  /\ callbackThrew' = e
  /\ Throw(e)
  /\ UNCHANGED <<hasCallback, startTime, lastPoll, polled, transient, posts, gets,
                 fastGets, getTargets>>

\* onStatusUpdate(currentStatus) throws inside the try block of the poll cycle:
\* the two tests below it are skipped.
GetOkThrows(resp, d, e) ==
  /\ pc = "getting"
  /\ hasCallback
  /\ Settles(d)
  /\ data' = resp
  /\ lastPoll' = Answered(resp)
  /\ polled' = Append(polled, resp.status)
  /\ progress' = Append(progress, currentStatus(resp))
  /\ callbackThrew' = e
  /\ UNCHANGED <<hasCallback, requestId, statusUrl, startTime, lastPost, transient,
                 posts, gets, getTargets>>
  /\ CatchThrown(e)

\* What the service answers to a caller whose callback may throw.
ThrowingPollResponses ==
  { [Blank EXCEPT !.status = st] : st \in {"queued", "completed", "failed"} }
  \cup { [Blank EXCEPT !.video_url = "https://cdn/v.mp4"] }

\* generateMemoryVideo called with a callback that may throw.
ThrowingNext ==
  \/ \E cb \in BOOLEAN : Call(cb) /\ callbackThrew' = NoError /\ UNCHANGED appVars
  \/ \E e \in CallbackThrows : CallThrows(e) /\ UNCHANGED appVars
  \/ \E resp \in InitialResponses :
        PostOk(resp) /\ callbackThrew' = NoError /\ UNCHANGED appVars
  \/ \E resp \in InitialResponses, e \in CallbackThrows :
        PostOkThrows(resp, e) /\ UNCHANGED appVars
  \/ \E err \in PostErrors : PostFail(err) /\ callbackThrew' = NoError /\ UNCHANGED appVars
  \/ TimerFires /\ UNCHANGED <<appVars, callbackThrew>>
  \/ \E resp \in ThrowingPollResponses, d \in {GetLatency, SlowGet} :
        GetOk(resp, d) /\ callbackThrew' = NoError /\ UNCHANGED appVars
  \/ \E resp \in ThrowingPollResponses, d \in {GetLatency, SlowGet}, e \in CallbackThrows :
        GetOkThrows(resp, d, e) /\ UNCHANGED appVars
  \/ \E err \in PollErrors, d \in {GetLatency, SlowGet} :
        GetFail(err, d) /\ callbackThrew' = NoError /\ UNCHANGED appVars

ThrowingSpec == Init /\ [][ThrowingNext]_vars

\* ---------------------------------------------------------------- the App component
\* What the user may have typed into the URL field.
UrlInputs == {"ftp://img/a.png", "https://img/a.png", "http://img/b.png"}

\* urlInput.match(/^https?:\/\/.+/), on the inputs above
IsHttpUrl(u) == u \in {"https://img/a.png", "http://img/b.png"}

\* Credentials the settings modal may save.
KeyInputs ==
  { [apiKey |-> "", apiSecret |-> ""], [apiKey |-> "key", apiSecret |-> ""],
    [apiKey |-> "key", apiSecret |-> "secret"] }

\* Mutant: one of the two credentials is enough.
hasKeysEither == keys.apiKey # "" \/ keys.apiSecret # ""

\* const hasKeys = Boolean(keys.apiKey && keys.apiSecret)
hasKeys == keys.apiKey # "" /\ keys.apiSecret # ""

\* status.charAt(0).toUpperCase() + status.slice(1), on the statuses that occur
Capitalize(status) ==
  CASE status = "queued" -> "Queued"
    [] status = "in_progress" -> "In_progress"
    [] status = "completed" -> "Completed"
    [] status = "success" -> "Success"
    [] status = "failed" -> "Failed"
    [] status = "nsfw" -> "Nsfw"
    [] OTHER -> status

\* response.video?.url || response.output || response.url ||
\*   (Array.isArray(response.output) ? response.output[0] : null)
videoUrl(response) ==
  IF Truthy(response.video_url) THEN StrOutput(response.video_url)
  ELSE IF OutputTruthy(response.output) THEN response.output
  ELSE IF Truthy(response.url) THEN StrOutput(response.url)
  ELSE IF IsArray(response.output) /\ Len(response.output.l) > 0
       THEN StrOutput(response.output.l[1])
  ELSE NoOutput

\* The message handleGenerate shows for an error of the call.
ErrorMessage(err) ==
  IF err.message = TimeoutError.message
  THEN "The request timed out. The video is taking longer than 30 minutes to generate."
  ELSE IF err.message # "" THEN err.message
  ELSE "Failed to generate video. Please check your API keys and try again."

\* Mutant: the button stays enabled while a generation is running.
GenerateDisabledNoPreview == preview = null

\* disabled={!preview || isGenerating}
GenerateDisabled == preview = null \/ isGenerating

\* Mutant: a request submitted before is not posted again; its job is tracked.
StartCallReusesJob(req) ==
  LET known == \E i \in 1..Len(requests) : requests[i] = req /\ lastPost.kind = "ok"
  IN /\ pc' = IF known THEN "waiting" ELSE "posting"
     /\ posts' = IF known THEN posts ELSE posts + 1
     /\ statusUrl' = IF known THEN statusUrl ELSE undefined
     /\ lastPost' = IF known THEN lastPost ELSE NotSettled
     /\ hasCallback' = TRUE
     /\ progress' = <<"Initializing...">>
     /\ requests' = Append(requests, req)
     /\ data' = Blank
     /\ requestId' = undefined
     /\ startTime' = now
     /\ outcome' = "none"
     /\ result' = Blank
     /\ thrown' = NoError
     /\ lastPoll' = NotSettled
     /\ polled' = <<>>
     /\ transient' = 0
     /\ gets' = 0
     /\ fastGets' = 0
     /\ waits' = 0
     /\ getTargets' = {}
     /\ UNCHANGED now

\* A fresh invocation of generateMemoryVideo with a callback: new locals, the
\* first notification, and the POST.  The call reads the clock only through
\* differences of Date.now(), so time is counted from the start of the call.
StartCall(req) ==
  /\ pc' = "posting"
  /\ hasCallback' = TRUE
  /\ progress' = <<"Initializing...">>
  /\ posts' = posts + 1
  /\ requests' = Append(requests, req)
  /\ data' = Blank
  /\ requestId' = undefined
  /\ statusUrl' = undefined
  /\ startTime' = 0
  /\ outcome' = "none"
  /\ result' = Blank
  /\ thrown' = NoError
  /\ lastPost' = NotSettled
  /\ lastPoll' = NotSettled
  /\ polled' = <<>>
  /\ transient' = 0
  /\ gets' = 0
  /\ fastGets' = 0
  /\ waits' = 0
  /\ getTargets' = {}
  /\ now' = 0

\* Mutant: the catch block reopens the settings on 401 only.
AfterAwaitOnly401 ==
  /\ IF outcome' = "returned"
     THEN /\ IF OutputTruthy(videoUrl(result'))
             THEN /\ generatedVideo' = videoUrl(result')
                  /\ error' = error
             ELSE /\ error' = "Video generation completed but no URL found. Status: "
                                \o Or(result'.status, "unknown") \o ". Check console."
                  /\ generatedVideo' = generatedVideo
          /\ isSettingsOpen' = isSettingsOpen
     ELSE /\ error' = ErrorMessage(thrown')
          /\ isSettingsOpen' = (isSettingsOpen \/ (thrown'.response /\ thrown'.status = 401))
          /\ generatedVideo' = generatedVideo
  /\ isGenerating' = FALSE
  /\ generationStatus' = ""
  /\ inFlight' = inFlight - 1
  /\ UNCHANGED <<preview, keys, requests>>

\* Mutant: the finally block clears isGenerating but not generationStatus.
AfterAwaitKeepsStatus ==
  /\ IF outcome' = "returned"
     THEN /\ IF OutputTruthy(videoUrl(result'))
             THEN /\ generatedVideo' = videoUrl(result')
                  /\ error' = error
             ELSE /\ error' = "Video generation completed but no URL found. Status: "
                                \o Or(result'.status, "unknown") \o ". Check console."
                  /\ generatedVideo' = generatedVideo
          /\ isSettingsOpen' = isSettingsOpen
     ELSE /\ error' = ErrorMessage(thrown')
          /\ isSettingsOpen' =
               (isSettingsOpen \/
                  (thrown'.response /\ (thrown'.status = 401 \/ thrown'.status = 403)))
          /\ generatedVideo' = generatedVideo
  /\ isGenerating' = FALSE
  /\ generationStatus' = generationStatus
  /\ inFlight' = inFlight - 1
  /\ UNCHANGED <<preview, keys, requests>>

\* The rest of handleGenerate once the awaited call has ended: the result or
\* the error, then the finally block.
AfterAwait ==
  /\ IF outcome' = "returned"
     THEN /\ IF OutputTruthy(videoUrl(result'))
             THEN /\ generatedVideo' = videoUrl(result')
                  /\ error' = error
             ELSE /\ error' = "Video generation completed but no URL found. Status: "
                                \o Or(result'.status, "unknown") \o ". Check console."
                  /\ generatedVideo' = generatedVideo
          /\ isSettingsOpen' = isSettingsOpen
     ELSE /\ error' = ErrorMessage(thrown')
          /\ isSettingsOpen' =
               (isSettingsOpen \/
                  (thrown'.response /\ (thrown'.status = 401 \/ thrown'.status = 403)))
          /\ generatedVideo' = generatedVideo
  /\ isGenerating' = FALSE
  /\ generationStatus' = ""
  /\ inFlight' = inFlight - 1
  /\ UNCHANGED <<preview, keys, requests>>

\* What the App does during a step of its call: the onStatusUpdate callback
\* sets generationStatus, and the end of the call resumes handleGenerate.
React ==
  IF pc' = "done"
  THEN AfterAwait
  ELSE /\ generationStatus' =
            IF progress' # progress
            THEN Capitalize(progress'[Len(progress')])
            ELSE generationStatus
       /\ UNCHANGED <<preview, isGenerating, generatedVideo, error, isSettingsOpen,
                      keys, requests, inFlight>>

\* The Load button or Enter in the URL field, which are rendered without a preview.
HandleUrlSubmit(urlInput) ==
  /\ preview = null
  /\ IF ~IsHttpUrl(urlInput)
     THEN /\ error' = "Please enter a valid URL starting with http:// or https://"
          /\ UNCHANGED <<preview, generatedVideo>>
     ELSE /\ preview' = urlInput
          /\ generatedVideo' = NoOutput
          /\ error' = null
  /\ UNCHANGED <<isGenerating, generationStatus, isSettingsOpen, keys, requests,
                 inFlight, callVars>>

\* The remove button of the preview, or Create Another below the video.
ClearAll ==
  /\ preview # null \/ OutputTruthy(generatedVideo)
  /\ preview' = null
  /\ generatedVideo' = NoOutput
  /\ error' = null
  /\ generationStatus' = ""
  /\ UNCHANGED <<isGenerating, isSettingsOpen, keys, requests, inFlight, callVars>>

\* The settings button of the header.
OpenSettings ==
  /\ ~isSettingsOpen
  /\ isSettingsOpen' = TRUE
  /\ UNCHANGED <<preview, isGenerating, generationStatus, generatedVideo, error, keys,
                 requests, inFlight, callVars>>

\* onClose of the settings modal.
CloseSettings ==
  /\ isSettingsOpen
  /\ isSettingsOpen' = FALSE
  /\ UNCHANGED <<preview, isGenerating, generationStatus, generatedVideo, error, keys,
                 requests, inFlight, callVars>>

\* handleSave of the settings modal: saveKeys, then onClose.
SaveKeys(newKeys) ==
  /\ isSettingsOpen
  /\ keys' = newKeys
  /\ isSettingsOpen' = FALSE
  /\ UNCHANGED <<preview, isGenerating, generationStatus, generatedVideo, error,
                 requests, inFlight, callVars>>

\* A click on the generate button: handleGenerate up to the awaited call.
HandleGenerate ==
  /\ ~GenerateDisabled
  /\ Len(requests) < MaxCalls
  /\ preview # null
  /\ IF ~hasKeys
     THEN /\ isSettingsOpen' = TRUE
          /\ error' = "Please configure your API keys to continue."
          /\ UNCHANGED <<preview, isGenerating, generationStatus, generatedVideo, keys,
                         requests, inFlight, callVars>>
     ELSE /\ isGenerating' = TRUE
          /\ generationStatus' = "Initializing..."
          /\ error' = null
          /\ StartCall([imageUrl |-> preview, apiKey |-> keys.apiKey,
                        apiSecret |-> keys.apiSecret])
          /\ inFlight' = inFlight + 1
          /\ UNCHANGED <<preview, generatedVideo, isSettingsOpen, keys, callbackThrew>>

\* What the service answers in a session of the App.
AppInitialResponses ==
  { [Blank EXCEPT !.video_url = "https://cdn/v.mp4", !.request_id = "r-1"],
    [Blank EXCEPT !.output = ListOutput(<<"https://cdn/a.mp4", "https://cdn/b.mp4">>),
                  !.request_id = "r-1"],
    [Blank EXCEPT !.request_id = "r-1"],
    Blank }

AppPollResponses ==
  { [Blank EXCEPT !.status = st, !.status_url = "https://elsewhere/status"] :
      st \in {"queued", "completed", "failed"} }
  \cup { [Blank EXCEPT !.status = "completed", !.video_url = "https://cdn/v.mp4"] }

AppErrors == {HttpError(401), HttpError(403), HttpError(404), HttpError(500)}

AppInit == InitCall /\ \E k \in KeyInputs : InitApp(k.apiKey, k.apiSecret)

AppNext ==
  \/ \E u \in UrlInputs : HandleUrlSubmit(u)
  \/ ClearAll
  \/ OpenSettings
  \/ CloseSettings
  \/ \E k \in KeyInputs : SaveKeys(k)
  \/ HandleGenerate
  \/ \E resp \in AppInitialResponses : PostOk(resp) /\ React /\ UNCHANGED callbackThrew
  \/ \E err \in AppErrors : PostFail(err) /\ React /\ UNCHANGED callbackThrew
  \/ TimerFires /\ React /\ UNCHANGED callbackThrew
  \/ \E resp \in AppPollResponses, d \in {GetLatency, SlowGet} : GetOk(resp, d) /\ React /\ UNCHANGED callbackThrew
  \/ \E err \in AppErrors, d \in {GetLatency, SlowGet} : GetFail(err, d) /\ React /\ UNCHANGED callbackThrew

AppSpec == AppInit /\ [][AppNext]_vars

\* The steps of the call in flight, as the App sees them.
AppCallNext ==
  \/ \E resp \in AppInitialResponses : PostOk(resp) /\ React /\ UNCHANGED callbackThrew
  \/ \E err \in AppErrors : PostFail(err) /\ React /\ UNCHANGED callbackThrew
  \/ TimerFires /\ React /\ UNCHANGED callbackThrew
  \/ \E resp \in AppPollResponses, d \in {GetLatency, SlowGet} : GetOk(resp, d) /\ React /\ UNCHANGED callbackThrew
  \/ \E err \in AppErrors, d \in {GetLatency, SlowGet} : GetFail(err, d) /\ React /\ UNCHANGED callbackThrew

\* The timer fires and every request settles, whatever the user does meanwhile.
AppFairSpec == AppSpec /\ WF_vars(AppCallNext)

\* ---------------------------------------------------------------- vocabulary of the claims
\* A body holds a resolvable video location under one of the four known shapes.
HasVideoLocation(r) ==
  \/ r.video_url \notin {undefined, ""}
  \/ (r.output.t = "str" /\ r.output.s # "")
  \/ (r.output.t = "list" /\ r.output.l # <<>>)
  \/ r.url \notin {undefined, ""}

\* The initial response, once the POST has been answered.
Submitted == lastPost.kind = "ok"
initial == lastPost.resp

\* The error is an HTTP 4xx other than 429.
ClientError(e) == e.response /\ e.status \in (400..499) \ {429}

\* The error is a 429, a 5xx, or carries no HTTP status.
TransientError(e) == ~e.response \/ e.status = 429 \/ e.status \in 500..599

TimeoutMessage == "Timed out waiting for video generation (2000s limit reached)."

TimedOut == pc = "done" /\ outcome = "threw" /\ thrown.message = TimeoutMessage

\* The status values that end a job.
TerminalStatuses == {"completed", "success", "failed", "nsfw"}

\* Every status GET so far was answered, with a non-terminal status and a body
\* that is neither ready nor failed.
PendingOnly ==
  /\ gets > 0
  /\ transient = 0
  /\ lastPoll.kind = "ok"
  /\ \A i \in 1..Len(polled) : polled[i] \notin TerminalStatuses
  /\ ~isVideoReady(lastPoll.resp)

\* The statuses of the answered polls, as the callback is to receive them.
PolledStatuses ==
  [i \in 1..Len(polled) |-> IF polled[i] \in {undefined, ""} THEN "in_progress" ELSE polled[i]]

\* ---------------------------------------------------------------- claims

\* C1: a status GET answered with status failed or nsfw (and a body that is not
\* ready) ends the call with a job-failure error whose message carries the
\* server's error (else the status); no wait and no GET follows.  lastPoll
\* keeps that answer until the next GET settles, so the call must be done in
\* every state in which it is the last answer.
C1_FailedStatusIsTerminal ==
  (lastPoll.kind = "ok" /\ lastPoll.resp.status \in {"failed", "nsfw"}
     /\ ~isVideoReady(lastPoll.resp))
  => /\ pc = "done"
     /\ outcome = "threw"
     /\ thrown.message =
          "Video generation failed: " \o
            (IF lastPoll.resp.error \in {undefined, ""}
             THEN lastPoll.resp.status ELSE lastPoll.resp.error)

\* C2: a polling call always ends, and when every poll was answered with a
\* non-terminal status and no ready or failed body, it ends with the timeout
\* error, after the ceiling, and with no result.
C2_PendingEndsInTimeout ==
  (pc = "waiting") ~>
     (pc = "done" /\ (PendingOnly => (TimedOut /\ now - startTime >= 2000000)))

C2_Witness == pc = "done" /\ PendingOnly /\ gets >= 2 /\ TimedOut

\* C3: a status GET that fails with an HTTP 4xx other than 429 ends the call
\* with that same error; no wait and no GET follows it.
C3_ClientErrorRethrown ==
  (lastPoll.kind = "err" /\ ClientError(lastPoll.err))
  => (pc = "done" /\ outcome = "threw" /\ thrown = lastPoll.err)

C3_Witness ==
  lastPoll.kind = "err" /\ lastPoll.err.status = 404 /\ pc = "done" /\ gets >= 2

\* C4: a transient poll error (429, 5xx, no HTTP status) never ends the call by
\* itself (polling goes on, or the ceiling is reached), and a later answer with
\* status completed or success is returned as the result.
C4_TransientTolerated ==
  /\ (lastPoll.kind = "err" /\ TransientError(lastPoll.err))
       => (pc = "waiting" \/ pc = "getting" \/ TimedOut)
  /\ (lastPoll.kind = "ok" /\ lastPoll.resp.status \in {"completed", "success"})
       => (pc = "done" /\ outcome = "returned" /\ result = lastPoll.resp)

C4_Witness ==
  /\ transient >= 1 /\ gets >= 2
  /\ outcome = "returned"
  /\ result.status = "completed"
  /\ now - startTime < TIMEOUT_MS

\* C5: an initial response that holds a video location under any of the known
\* shapes is returned at once: no status GET and no wait interval.
C5_ReadyInitialReturned ==
  (Submitted /\ HasVideoLocation(initial))
  => (pc = "done" /\ outcome = "returned" /\ result = initial /\ gets = 0 /\ waits = 0)

C5_Witness ==
  /\ Submitted /\ pc = "done"
  /\ initial.output.t = "list" /\ Len(initial.output.l) = 2
  /\ initial.request_id = "r-1"

\* C6 (as claimed): with a callback supplied, the values it received are exactly
\* the statuses of the answered polls, in order.
C6_OnlyPollStatuses == hasCallback => progress = PolledStatuses

\* C6 (amended): with a callback supplied, the values it received are
\* "Initializing...", then - once polling has started - the initial status or
\* "Queued", then exactly the statuses of the answered polls, in order.
C6_ProgressSequence ==
  (pc # "idle" /\ hasCallback) =>
    progress = <<"Initializing...">>
               \o (IF waits > 0
                   THEN <<IF initial.status \in {undefined, ""}
                          THEN "Queued" ELSE initial.status>>
                   ELSE <<>>)
               \o PolledStatuses

C6_Witness ==
  /\ hasCallback /\ pc = "done"
  /\ Len(polled) >= 2 /\ polled[1] = undefined /\ polled[2] = "queued"
  /\ transient >= 1

\* C7: once the call has returned or thrown, the callback is not invoked again.
C7_NoProgressAfterEnd == [][outcome # "none" => progress' = progress]_vars

C7_Witness == hasCallback /\ outcome = "threw" /\ Len(progress) >= 3

\* C8 (as claimed): a result returned out of the poll loop holds a video location.
C8_PolledResultHasVideo ==
  (outcome = "returned" /\ gets > 0) => HasVideoLocation(result)

\* C8 (amended): a result returned out of the poll loop is the last poll answer,
\* and it holds a video location unless it was accepted on its status
\* (completed or success) or on an empty output list.
C8_PolledResultAccepted ==
  (outcome = "returned" /\ gets > 0)
  => /\ result = lastPoll.resp
     /\ \/ HasVideoLocation(result)
        \/ result.status \in {"completed", "success"}
        \/ result.output = ListOutput(<<>>)

C8_Witness ==
  /\ outcome = "returned" /\ gets > 0
  /\ result.status = "completed" /\ ~HasVideoLocation(result)

\* C9: every status GET of the call goes to one target, fixed before the first
\* poll: the initial status_url when present, else the template with
\* request_id, or id when request_id is absent.
ExpectedTarget ==
  IF initial.status_url \notin {undefined, ""}
  THEN initial.status_url
  ELSE "https://platform.higgsfield.ai/requests/"
         \o (IF initial.request_id \notin {undefined, ""}
             THEN initial.request_id ELSE initial.id)
         \o "/status"

C9_PollTargetFixed ==
  (waits > 0) => (statusUrl = ExpectedTarget /\ getTargets \subseteq {ExpectedTarget})

C9_Witness ==
  /\ gets >= 2 /\ lastPoll.kind = "ok"
  /\ initial.status_url = undefined /\ initial.request_id = "r-1" /\ initial.id = "i-2"
  /\ getTargets = {"https://platform.higgsfield.ai/requests/r-1/status"}

\* C10: an initial response that is not ready and has no request id and no
\* status_url is returned unchanged, without error, GET or wait.
C10_UntrackableReturned ==
  (/\ Submitted
   /\ ~isVideoReady(initial)
   /\ initial.status_url \in {undefined, ""}
   /\ initial.request_id \in {undefined, ""}
   /\ initial.id \in {undefined, ""})
  => (pc = "done" /\ outcome = "returned" /\ result = initial /\ gets = 0 /\ waits = 0)

C10_Witness ==
  /\ Submitted /\ pc = "done" /\ outcome = "returned"
  /\ initial.status_url = "" /\ initial.id = undefined /\ initial.request_id = undefined

\* C11: a failed POST ends the call with that same error; the POST is not
\* repeated and no wait or status GET follows.
C11_PostFailureSurfaced ==
  (lastPost.kind = "err")
  => /\ pc = "done" /\ outcome = "threw" /\ thrown = lastPost.err
     /\ posts = 1 /\ gets = 0 /\ waits = 0

C11_Witness == lastPost.kind = "err" /\ lastPost.err.status = 422 /\ pc = "done"

\* C13: every call issues exactly one POST, whatever was submitted before: the
\* number of POSTs issued equals the number of calls made.
C13_OnePostPerCall == posts = Len(requests)

C13_Witness ==
  /\ Len(requests) = 2 /\ requests[1] = requests[2]
  /\ posts = 2 /\ lastPost.kind = "ok" /\ pc = "waiting"

\* The initial response names a request id or a status URL.
Trackable(r) ==
  r.status_url \notin {undefined, ""} \/ r.request_id \notin {undefined, ""}
    \/ r.id \notin {undefined, ""}

\* C14: a body is taken as ready exactly when it holds a video location under a
\* known shape: a trackable initial response is returned without polling
\* exactly then, and a poll answer with a non-terminal status ends the loop
\* exactly then (so an empty output list leads to polling and does not end it).
C14_ReadyIffVideoLocation ==
  /\ (Submitted /\ Trackable(initial))
       => ((waits = 0) <=> HasVideoLocation(initial))
  /\ (lastPoll.kind = "ok" /\ lastPoll.resp.status \notin TerminalStatuses)
       => ((pc = "done" /\ outcome = "returned") <=> HasVideoLocation(lastPoll.resp))

\* C15: a call that has ended has exactly one outcome: the initial response
\* returned with no status GET, the last poll answer returned after at least
\* one status GET, or an error raised and no result; a call that has not ended
\* has none.
C15_OneOutcome ==
  /\ (pc = "done") <=> (outcome # "none")
  /\ outcome \in {"none", "returned", "threw"}
  /\ (outcome = "returned") =>
       /\ thrown = NoError
       /\ Submitted
       /\ \/ gets = 0 /\ lastPoll.kind = "none" /\ result = initial
          \/ gets >= 1 /\ lastPoll.kind = "ok" /\ result = lastPoll.resp
  /\ (outcome = "threw") => (result = Blank /\ thrown # NoError)

C15_Witness == pc = "done" /\ outcome = "returned" /\ gets >= 2 /\ transient >= 1

\* Every status GET so far failed, the last one with a transient error (an
\* earlier non-transient one would have ended the call).
OnlyFailedPolls ==
  gets > 0 /\ polled = <<>> /\ lastPoll.kind = "err" /\ TransientError(lastPoll.err)

\* C16: the start time does not change while the call polls, and a polling call
\* ends; when every status GET failed transiently it ends with the timeout
\* error, at least 2000 s after the start time.
C16_TransientErrorsKeepBudget ==
  /\ [][(pc \in {"waiting", "getting"}) => (startTime' = startTime)]_vars
  /\ (pc = "waiting") ~>
       (pc = "done" /\ (OnlyFailedPolls => (TimedOut /\ now - startTime >= 2000000)))

C16_Witness ==
  pc = "done" /\ OnlyFailedPolls /\ gets >= 3 /\ TimedOut /\ lastPoll.err.status = 429

\* C17: a status GET is issued only at the end of a wait, which takes at least
\* 5 s and starts after the previous GET has settled; so the n-th GET is issued
\* no sooner than n * 5 s after the start time, a wait starts only with fewer
\* than 400 GETs issued, and a call issues at most 400 of them.
C17_PollsSpaced ==
  /\ [][gets' > gets => (pc = "waiting" /\ gets' = gets + 1 /\ now' - now >= 5000)]_vars
  /\ [](waits - gets \in {0, 1} /\ ((waits - gets = 1) <=> (pc = "waiting")))
  /\ [](gets * 5000 <= now - startTime)
  /\ [](pc = "waiting" => gets * 5000 < 2000000)
  /\ [](gets <= 400)

C17_Witness == gets >= 3 /\ pc = "getting" /\ now - startTime < 2000000

\* The video URL of a result, in the order video.url, output as a string, the
\* head of output as a list, url.
ResolvedUrl(r) ==
  IF r.video_url \notin {undefined, ""} THEN r.video_url
  ELSE IF r.output.t = "str" /\ r.output.s # "" THEN r.output.s
  ELSE IF r.output.t = "list" /\ r.output.l # <<>> THEN Head(r.output.l)
  ELSE r.url

\* C18: the video the player is given for a result that holds a video location
\* is the URL resolved in that order; for a non-empty output list, its head.
C18_PlayerGetsResolvedUrl ==
  (pc = "done" /\ outcome = "returned" /\ HasVideoLocation(result)
     /\ generatedVideo # NoOutput)
  => generatedVideo = StrOutput(ResolvedUrl(result))

\* C19: in the App at most one call is in flight: a call is in flight exactly
\* while isGenerating is true, and then the generate button is disabled.
C19_OneCallInFlight ==
  /\ inFlight \in {0, 1}
  /\ (inFlight = 1) <=> isGenerating
  /\ isGenerating <=> (pc \in {"posting", "waiting", "getting"})
  /\ isGenerating => GenerateDisabled

C19_Witness ==
  /\ inFlight = 1 /\ Len(requests) = 2 /\ pc = "getting"
  /\ preview = null /\ isSettingsOpen

\* C20: in the App a generated video is shown only with a loaded image.
C20_VideoOnlyWithPreview == (generatedVideo # NoOutput) => (preview # null)

\* The message handleGenerate shows when a credential is missing.
MissingKeysMessage == "Please configure your API keys to continue."

\* Both credentials are non-empty.
CompleteCredentials == keys.apiKey # "" /\ keys.apiSecret # ""

\* C21: every generateMemoryVideo call the App has made carries a non-null
\* image URL and two non-empty credentials; a step that makes a call is made
\* with a preview and complete credentials and passes exactly these; and a
\* click on the generate button with a credential missing issues no request,
\* opens the settings modal and sets the error.
C21_CallsHaveImageAndKeys ==
  /\ [](\A i \in 1..Len(requests) :
          /\ requests[i].imageUrl # null
          /\ requests[i].apiKey # ""
          /\ requests[i].apiSecret # "")
  /\ [][(requests' # requests \/ posts' # posts) =>
          /\ preview # null
          /\ CompleteCredentials
          /\ posts' = posts + 1
          /\ requests' = Append(requests, [imageUrl |-> preview, apiKey |-> keys.apiKey,
                                           apiSecret |-> keys.apiSecret])]_vars
  /\ [][(HandleGenerate /\ ~CompleteCredentials) =>
          /\ posts' = posts
          /\ requests' = requests
          /\ pc' = pc
          /\ isSettingsOpen'
          /\ error' = MissingKeysMessage]_vars

\* A call was made with complete credentials, then the secret was removed and
\* the generate button clicked again.
C21_Witness ==
  /\ Len(requests) = 1
  /\ posts = 1
  /\ preview # null
  /\ keys.apiKey = "key" /\ keys.apiSecret = ""
  /\ error = MissingKeysMessage
  /\ isSettingsOpen

\* C22: a call that has ended (or none made yet) leaves the App not generating
\* and with an empty generationStatus, in every state until the next call is
\* started; the step that ends the call resets both; and every started
\* generation leaves the generating state.
C22_GenerationEnds ==
  /\ []((pc \in {"idle", "done"}) => (~isGenerating /\ generationStatus = ""))
  /\ [][(pc # "done" /\ pc' = "done") =>
          (~isGenerating' /\ generationStatus' = "" /\ isGenerating)]_vars
  /\ [][(generationStatus = "" /\ generationStatus' # "") =>
          (isGenerating' /\ pc' \in {"posting", "waiting", "getting"})]_vars
  /\ (isGenerating ~> ~isGenerating)

\* A call that notified the App several times has failed, and the status line
\* is empty.
C22_Witness ==
  /\ pc = "done"
  /\ outcome = "threw"
  /\ Len(progress) >= 3
  /\ ~isGenerating
  /\ generationStatus = ""

\* The error carries HTTP status 401 or 403.
AuthFailure(e) == e.response /\ e.status \in {401, 403}

PollingGoesOn ==
  \/ pc' = "waiting" /\ outcome' = "none" /\ waits' = waits + 1
  \/ /\ pc' = "done" /\ outcome' = "threw" /\ thrown' = TimeoutError
     /\ now' - startTime >= 2000000

\* The call ends in this step with the error e, and without a result.
EndsWith(e) == pc' = "done" /\ outcome' = "threw" /\ thrown' = e /\ result' = Blank

\* The callback was invoked in this step and threw.
CallbackThrewNow == progress' # progress /\ callbackThrew' # NoError

\* C24 as stated: whatever the callback throws inside a poll cycle is swallowed
\* and polling goes on, and whatever it throws before polling starts ends the
\* call with that exception.
C24_CallbackErrorSwallowed ==
  [][CallbackThrewNow =>
       IF pc = "getting" THEN PollingGoesOn ELSE EndsWith(callbackThrew')]_vars

\* C24, amended: what the callback throws inside a poll cycle goes through the
\* catch clause of the cycle like any poll error, the response of that poll
\* being left unevaluated: null ends the call with the TypeError of the catch
\* clause, a value carrying an HTTP 4xx status other than 429 ends the call with
\* that value, and anything else is swallowed and polling goes on.  What the
\* callback throws before polling starts ends the call with that exception,
\* and when it is thrown before submission no POST is issued.
C24_CallbackErrorClassified ==
  [][CallbackThrewNow =>
       IF pc = "getting"
       THEN /\ outcome' # "returned"
            /\ IF callbackThrew' = ThrownNull THEN EndsWith(TypeError)
               ELSE IF ClientError(callbackThrew') THEN EndsWith(callbackThrew')
               ELSE PollingGoesOn
       ELSE /\ EndsWith(callbackThrew')
            /\ gets' = 0
            /\ (pc = "idle") => (posts' = 0)]_vars

\* The callback threw an Error on a poll answered with status completed, and
\* the call waits for the next poll.
C24_Witness ==
  /\ pc = "waiting"
  /\ callbackThrew = JsError("callback failed")
  /\ lastPoll.kind = "ok"
  /\ lastPoll.resp.status = "completed"
  /\ outcome = "none"
  /\ gets >= 1

====
